---- MODULE Spec2Model ----
(***************************************************************************)
(* rindexer_core/src/indexer/fetch_logs.rs                                 *)
(*                                                                         *)
(*   retry_with_block_range  the block-range negotiator                    *)
(*   fetch_logs              the one-shot recursive fetcher                *)
(*   fetch_logs_stream       the spawned task that loops over get_logs and *)
(*                           feeds an unbounded channel                    *)
(*                                                                         *)
(* A log is represented by its block number (the only field of a log the   *)
(* code reads, line 130).  A filter is the record of its block range and   *)
(* of its address and topics.  An error message is a sequence of tokens:   *)
(* literal text and 0x-prefixed hexadecimal literals.                      *)
(***************************************************************************)
EXTENDS Integers, Sequences, FiniteSets, TLC

VARIABLES
    \* ---- the environment of fetch_logs_stream
    provider,           \* what the provider may answer: "honest", "limits", "faulty"
    logsAt,             \* the blocks of the chain that hold logs matching the filter
    head,               \* the chain head (get_block_number)
    rx_closed,          \* the consumer dropped the receiving half of the channel
    \* ---- fetch_logs_stream
    live_indexing,      \* parameter live_indexing
    initial_filter,     \* parameter initial_filter
    snapshot_to_block,  \* line 95
    current_filter,     \* line 96
    pc,                 \* where the spawned task is
    tx,                 \* the items successfully sent on the channel, in order
    \* ---- what the task has asked and been told (observation only)
    nreq,               \* the number of get_logs requests issued
    last_request,       \* the filter of the latest get_logs request
    requested,          \* the blocks covered by some get_logs request so far
    last_reply,         \* the provider's latest answer to get_logs
    \* ---- fetch_logs
    filter_arg,         \* parameter filter of fetch_logs
    fl_pc,              \* where the call is
    fl_filter,          \* parameter filter of the innermost inner_fetch_logs
    fl_requests,        \* the filters passed to get_logs, in order
    fl_responses,       \* the provider's answers to them, in order
    fl_result,          \* the value the future resolves to
    \* ---- retry_with_block_range and the narrowing its callers apply
    neg_pc,             \* "call" before, "done" after
    neg_error,          \* parameter error (a JsonRpcError)
    neg_filter,         \* the filter of the request that failed
    neg_result,         \* the Option the negotiator returns
    neg_next,           \* the filter of the retry, when there is one
    \* ---- EventsDependencyTree
    dep_pc,             \* "build" before construction, "done" after
    dep_edges,          \* the declared dependency edges <<a, b>>: b depends on a
    dep_stages,         \* the stages, in order
    dep_error           \* "none" or "DependencyCycleError"

stream_vars == << provider, logsAt, head, rx_closed, live_indexing, initial_filter,
                  snapshot_to_block, current_filter, pc, tx, nreq, last_request,
                  requested, last_reply >>

fetch_vars == << filter_arg, fl_pc, fl_filter, fl_requests, fl_responses, fl_result >>

neg_vars == << neg_pc, neg_error, neg_filter, neg_result, neg_next >>

dep_vars == << dep_pc, dep_edges, dep_stages, dep_error >>

vars == << provider, logsAt, head, rx_closed, live_indexing, initial_filter,
           snapshot_to_block, current_filter, pc, tx, nreq, last_request, requested,
           last_reply, filter_arg, fl_pc, fl_filter, fl_requests, fl_responses, fl_result,
           neg_pc, neg_error, neg_filter, neg_result, neg_next,
           dep_pc, dep_edges, dep_stages, dep_error >>

\* ------------------------------------------------------------------ bounds
\* Highest block the chain reaches.
MaxBlock == 4
\* Highest block number of an initial filter of fetch_logs_stream.
MaxStart == 2
\* Number of get_logs requests one task is followed for.
MaxRequests == 4
\* Highest block number a fetch_logs filter or a provider reply to it names.
MaxFetchBlock == 2
\* Number of get_logs requests one fetch_logs call is followed for.
MaxFetchRequests == 3
\* Highest number of digits of a hex literal in an error message.
MaxHexLen == 2
\* Number of events of the manifest (A, B, C are 1, 2, 3).
MaxEvents == 3

Blocks == 1..MaxBlock

\* ---------------------------------------------------------------- helpers
Last(s) == s[Len(s)]

\* Filter::from_block / Filter::to_block: builder calls that replace the block
\* range and keep address and topics.
from_block(filter, b) == [filter EXCEPT !.from_block = b]

to_block(filter, b) == [filter EXCEPT !.to_block = b]

\* ------------------------------------------------------- error messages
Lit(s) == [t |-> "lit", s |-> s, hex |-> <<>>]

Hex(digits) == [t |-> "hex", s |-> "0x", hex |-> digits]

RECURSIVE ToHexDigits(_)
\* The digits of n in base 16, most significant first (what a provider prints).
ToHexDigits(n) == IF n < 16 THEN <<n>> ELSE Append(ToHexDigits(n \div 16), n % 16)

RECURSIVE HexValue(_)
\* BlockNumber::from_str on a "0x..." string: the value of the hex digits.
HexValue(digits) ==
    IF Len(digits) = 0 THEN 0
    ELSE 16 * HexValue(SubSeq(digits, 1, Len(digits) - 1)) + Last(digits)

\* The provider's range-limit message naming [a, b].
RangeMessage(a, b) ==
    << Lit("Log response size exceeded. "),
       Lit("this block range should work: ["), Hex(ToHexDigits(a)), Lit(", "),
       Hex(ToHexDigits(b)), Lit("]") >>

RateLimitMessage == << Lit("rate limited") >>

\* An error of the middleware: rpc says whether as_error_response() yields a
\* JsonRpcError, message is that error's text.
RpcError(message) == [rpc |-> TRUE, message |-> message]

TransportError == [rpc |-> FALSE, message |-> << Lit("connection reset") >>]

\* An error that is no JSON-RPC error response though its text names a range.
UnstructuredRangeError == [rpc |-> FALSE, message |-> RangeMessage(1, 1)]

NoError == [rpc |-> FALSE, message |-> <<>>]

None == [some |-> FALSE, from |-> 0, to |-> 0, range |-> 0]

\* Whether the regex matches the message at token i:
\* "this block range should work: \[(0x[0-9a-fA-F]+),\s*(0x[0-9a-fA-F]+)]".
MatchesAt(message, i) ==
    /\ i + 4 <= Len(message)
    /\ message[i] = Lit("this block range should work: [")
    /\ message[i + 1].t = "hex" /\ Len(message[i + 1].hex) > 0
    /\ message[i + 2] \in {Lit(","), Lit(", ")}
    /\ message[i + 3].t = "hex" /\ Len(message[i + 3].hex) > 0
    /\ message[i + 4] = Lit("]")

\* The negotiator with its two captures taken in the wrong order.
retry_with_block_range_Swapped(error) ==
    LET hits == {i \in 1..Len(error.message) : MatchesAt(error.message, i)}
    IN  IF hits = {} THEN None
        ELSE LET i == CHOOSE k \in hits : \A j \in hits : k <= j
             IN  [some |-> TRUE,
                  from |-> HexValue(error.message[i + 3].hex),
                  to |-> HexValue(error.message[i + 1].hex),
                  range |-> 10]

\* retry_with_block_range: the first match's two captures, parsed as block
\* numbers; range is the constant 10.
retry_with_block_range(error) ==
    LET hits == {i \in 1..Len(error.message) : MatchesAt(error.message, i)}
    IN  IF hits = {} THEN None
        ELSE LET i == CHOOSE k \in hits : \A j \in hits : k <= j
             IN  [some |-> TRUE,
                  from |-> HexValue(error.message[i + 1].hex),
                  to |-> HexValue(error.message[i + 3].hex),
                  range |-> 10]

\* The narrowing without the as_error_response() test: any error's text is read.
Negotiate_AnyError(err) == retry_with_block_range(err)

\* The narrowing both callers apply: as_error_response() must yield an error
\* and the negotiator a range.
Negotiate(err) == IF err.rpc THEN retry_with_block_range(err) ELSE None

\* A narrowing that takes the suggested from and keeps the old to_block.
NarrowFilter_FromOnly(filter, retry_result) ==
    from_block(filter, retry_result.from)

\* current_filter.from_block(retry_result.from).to_block(retry_result.to)
NarrowFilter(filter, retry_result) ==
    to_block(from_block(filter, retry_result.from), retry_result.to)

\* -------------------------------------------------------------- provider
RECURSIVE LogsOf(_, _, _)
\* The logs of blocks f..t among the blocks `have`, in ascending block order.
LogsOf(have, f, t) ==
    IF f > t THEN <<>>
    ELSE (IF f \in have THEN <<f>> ELSE <<>>) \o LogsOf(have, f + 1, t)

OkItem(logs) == [ok |-> TRUE, logs |-> logs, err |-> NoError]

ErrItem(err) == [ok |-> FALSE, logs |-> <<>>, err |-> err]

\* A filter over [f, t]; address and topics are opaque.
MkFilter(f, t, address) ==
    [from_block |-> f, to_block |-> t, address |-> address, topics |-> "topic0"]

NoFilter == MkFilter(0, 0, "none")

NoReply == [ok |-> TRUE, logs |-> <<>>, err |-> NoError]

\* The range-limit errors that name a range inside the request [f, t].
RangeErrors(f, t) == { ErrItem(RpcError(RangeMessage(a, b))) : a \in f..t, b \in f..t }

\* What the provider may answer to get_logs(req) for the task.
\*   honest: all logs of the requested range that the chain holds, ascending;
\*   limits: that, or a range-limit error naming a proper sub-range [a, b],
\*           a <= b, of the request;
\*   faulty: that, or a range-limit error naming any two blocks of the request
\*           (the request itself, or a > b, included), or an error without a range.
GetLogsReplies(req) ==
    LET all == OkItem(LogsOf(logsAt \cap (1..head), req.from_block, req.to_block))
        sub == RangeErrors(req.from_block, req.to_block)
        proper == { e \in sub :
                      LET r == retry_with_block_range(e.err)
                      IN  r.from <= r.to /\ <<r.from, r.to>> # <<req.from_block, req.to_block>> }
    IN  CASE provider = "honest" -> {all}
          [] provider = "limits" -> {all} \cup proper
          [] OTHER -> {all} \cup sub \cup {ErrItem(TransportError), ErrItem(RpcError(RateLimitMessage))}

\* ------------------------------------------------------ fetch_logs_stream
Stopped == pc \in {"all_fetched", "send_failed", "error_exit", "panicked"}

\* The clamp turned round: to_block follows from_block.
Clamp_ToFrom(filter) ==
    IF filter.from_block > filter.to_block
    THEN to_block(filter, filter.from_block)
    ELSE filter

\* Lines 99-103: a filter with from_block > to_block gets from_block = to_block.
Clamp(filter) ==
    IF filter.from_block > filter.to_block
    THEN from_block(filter, filter.to_block)
    ELSE filter

\* Lines 114-116: after an empty answer while live, the filter is [head, head].
LiveFilter(filter, current_block) ==
    to_block(from_block(filter, current_block), current_block)

\* The advance with to_block left as the request had it.
Advance_KeepTo(filter, logs, snapshot) ==
    IF Len(logs) = 0 THEN filter
    ELSE from_block(filter, Last(logs) + 1)

\* Lines 128-133: past the last log's block, up to the snapshot.
Advance(filter, logs, snapshot) ==
    IF Len(logs) = 0 THEN filter
    ELSE to_block(from_block(filter, Last(logs) + 1), snapshot)

\* tx.send(item): fails, and queues nothing, once the receiver is gone.
Send(chan, item, closed) == IF closed THEN chan ELSE Append(chan, item)

\* Lines 97-105: the top of the loop up to the get_logs call.
Dispatch ==
    /\ pc = "loop"
    /\ nreq < MaxRequests
    /\ current_filter' = Clamp(current_filter)
    /\ nreq' = nreq + 1
    /\ last_request' = current_filter'
    /\ requested' = requested \cup (current_filter'.from_block..current_filter'.to_block)
    /\ pc' = "get_logs"
    /\ UNCHANGED << provider, logsAt, head, rx_closed, live_indexing, initial_filter,
                    snapshot_to_block, tx, last_reply >>
    /\ UNCHANGED << fetch_vars, neg_vars, dep_vars >>

\* Lines 106-111: Ok, empty, live: sleep, then ask for the chain head.
RecvEmptyLive ==
    /\ pc = "get_logs"
    /\ live_indexing
    /\ \E reply \in GetLogsReplies(current_filter) :
         /\ reply.ok /\ Len(reply.logs) = 0
         /\ last_reply' = reply
    /\ pc' = "get_block_number"
    /\ UNCHANGED << provider, logsAt, head, rx_closed, live_indexing, initial_filter,
                    snapshot_to_block, current_filter, tx, nreq, last_request, requested >>
    /\ UNCHANGED << fetch_vars, neg_vars, dep_vars >>

\* Lines 112-117: the head arrives; the filter becomes [head, head]; continue.
RecvBlockNumber ==
    /\ pc = "get_block_number"
    /\ current_filter' = LiveFilter(current_filter, head)
    /\ pc' = "loop"
    /\ UNCHANGED << provider, logsAt, head, rx_closed, live_indexing, initial_filter,
                    snapshot_to_block, tx, nreq, last_request, requested, last_reply >>
    /\ UNCHANGED << fetch_vars, neg_vars, dep_vars >>

\* Line 112: get_block_number fails and unwrap() panics: the task ends, the
\* sender is dropped.
RecvBlockNumberErr ==
    /\ pc = "get_block_number"
    /\ provider = "faulty"
    /\ pc' = "panicked"
    /\ UNCHANGED << provider, logsAt, head, rx_closed, live_indexing, initial_filter,
                    snapshot_to_block, current_filter, tx, nreq, last_request, requested,
                    last_reply >>
    /\ UNCHANGED << fetch_vars, neg_vars, dep_vars >>

\* Lines 108, 119-120: Ok, empty, not live: break.
RecvEmptyStop ==
    /\ pc = "get_logs"
    /\ ~live_indexing
    /\ \E reply \in GetLogsReplies(current_filter) :
         /\ reply.ok /\ Len(reply.logs) = 0
         /\ last_reply' = reply
    /\ pc' = "all_fetched"
    /\ UNCHANGED << provider, logsAt, head, rx_closed, live_indexing, initial_filter,
                    snapshot_to_block, current_filter, tx, nreq, last_request, requested >>
    /\ UNCHANGED << fetch_vars, neg_vars, dep_vars >>

\* Lines 123, 128-135: Ok, non-empty, the send succeeds: the filter advances.
RecvBatch ==
    /\ pc = "get_logs"
    /\ ~rx_closed
    /\ \E reply \in GetLogsReplies(current_filter) :
         /\ reply.ok /\ Len(reply.logs) > 0
         /\ last_reply' = reply
         /\ tx' = Send(tx, OkItem(reply.logs), rx_closed)
         /\ current_filter' = Advance(current_filter, reply.logs, snapshot_to_block)
    /\ pc' = "loop"
    /\ UNCHANGED << provider, logsAt, head, rx_closed, live_indexing, initial_filter,
                    snapshot_to_block, nreq, last_request, requested >>
    /\ UNCHANGED << fetch_vars, neg_vars, dep_vars >>

\* The failed send without its break: the loop goes on.
RecvBatchSendFailed_Continue ==
    /\ pc = "get_logs"
    /\ rx_closed
    /\ \E reply \in GetLogsReplies(current_filter) :
         /\ reply.ok /\ Len(reply.logs) > 0
         /\ last_reply' = reply
         /\ tx' = Send(tx, OkItem(reply.logs), rx_closed)
    /\ pc' = "loop"
    /\ UNCHANGED << provider, logsAt, head, rx_closed, live_indexing, initial_filter,
                    snapshot_to_block, current_filter, nreq, last_request, requested >>
    /\ UNCHANGED << fetch_vars, neg_vars, dep_vars >>

\* Lines 123-126: Ok, non-empty, the send fails (receiver gone): break.
RecvBatchSendFailed ==
    /\ pc = "get_logs"
    /\ rx_closed
    /\ \E reply \in GetLogsReplies(current_filter) :
         /\ reply.ok /\ Len(reply.logs) > 0
         /\ last_reply' = reply
         /\ tx' = Send(tx, OkItem(reply.logs), rx_closed)
    /\ pc' = "send_failed"
    /\ UNCHANGED << provider, logsAt, head, rx_closed, live_indexing, initial_filter,
                    snapshot_to_block, current_filter, nreq, last_request, requested >>
    /\ UNCHANGED << fetch_vars, neg_vars, dep_vars >>

\* Lines 137-148: Err with a negotiated range: the filter takes it; continue.
RecvErrNarrow ==
    /\ pc = "get_logs"
    /\ \E reply \in GetLogsReplies(current_filter) :
         /\ ~reply.ok /\ Negotiate(reply.err).some
         /\ last_reply' = reply
         /\ current_filter' = NarrowFilter(current_filter, Negotiate(reply.err))
    /\ pc' = "loop"
    /\ UNCHANGED << provider, logsAt, head, rx_closed, live_indexing, initial_filter,
                    snapshot_to_block, tx, nreq, last_request, requested >>
    /\ UNCHANGED << fetch_vars, neg_vars, dep_vars >>

\* The live retry starting over from the initial filter.
RecvErrLive_Rewind ==
    /\ pc = "get_logs"
    /\ live_indexing
    /\ \E reply \in GetLogsReplies(current_filter) :
         /\ ~reply.ok /\ ~Negotiate(reply.err).some
         /\ last_reply' = reply
    /\ current_filter' = initial_filter
    /\ pc' = "loop"
    /\ UNCHANGED << provider, logsAt, head, rx_closed, live_indexing, initial_filter,
                    snapshot_to_block, tx, nreq, last_request, requested >>
    /\ UNCHANGED << fetch_vars, neg_vars, dep_vars >>

\* Lines 151-155: Err without a range, live: sleep 500 ms; continue.
RecvErrLive ==
    /\ pc = "get_logs"
    /\ live_indexing
    /\ \E reply \in GetLogsReplies(current_filter) :
         /\ ~reply.ok /\ ~Negotiate(reply.err).some
         /\ last_reply' = reply
    /\ pc' = "loop"
    /\ UNCHANGED << provider, logsAt, head, rx_closed, live_indexing, initial_filter,
                    snapshot_to_block, current_filter, tx, nreq, last_request, requested >>
    /\ UNCHANGED << fetch_vars, neg_vars, dep_vars >>

\* The fatal branch without its break: the Err is sent and the loop goes on.
RecvErrFatal_Continue ==
    /\ pc = "get_logs"
    /\ ~live_indexing
    /\ \E reply \in GetLogsReplies(current_filter) :
         /\ ~reply.ok /\ ~Negotiate(reply.err).some
         /\ last_reply' = reply
         /\ tx' = Send(tx, ErrItem(reply.err), rx_closed)
    /\ pc' = "loop"
    /\ UNCHANGED << provider, logsAt, head, rx_closed, live_indexing, initial_filter,
                    snapshot_to_block, current_filter, nreq, last_request, requested >>
    /\ UNCHANGED << fetch_vars, neg_vars, dep_vars >>

\* Lines 156-158: Err without a range, not live: send Err (the result of the
\* send is ignored); break.
RecvErrFatal ==
    /\ pc = "get_logs"
    /\ ~live_indexing
    /\ \E reply \in GetLogsReplies(current_filter) :
         /\ ~reply.ok /\ ~Negotiate(reply.err).some
         /\ last_reply' = reply
         /\ tx' = Send(tx, ErrItem(reply.err), rx_closed)
    /\ pc' = "error_exit"
    /\ UNCHANGED << provider, logsAt, head, rx_closed, live_indexing, initial_filter,
                    snapshot_to_block, current_filter, nreq, last_request, requested >>
    /\ UNCHANGED << fetch_vars, neg_vars, dep_vars >>

\* The chain grows by any number of blocks while a live task runs.  (A task
\* that is not live never reads the head and never asks past the snapshot.)
AdvanceHead ==
    /\ pc \in {"loop", "get_logs", "get_block_number"}
    /\ live_indexing
    /\ \E h \in (head + 1)..MaxBlock : head' = h
    /\ UNCHANGED << provider, logsAt, rx_closed, live_indexing, initial_filter,
                    snapshot_to_block, current_filter, pc, tx, nreq, last_request,
                    requested, last_reply >>
    /\ UNCHANGED << fetch_vars, neg_vars, dep_vars >>

\* The consumer drops the stream.
ConsumerClose ==
    /\ pc \in {"loop", "get_logs", "get_block_number"}
    /\ ~rx_closed
    /\ rx_closed' = TRUE
    /\ UNCHANGED << provider, logsAt, head, live_indexing, initial_filter,
                    snapshot_to_block, current_filter, pc, tx, nreq, last_request,
                    requested, last_reply >>
    /\ UNCHANGED << fetch_vars, neg_vars, dep_vars >>

NegotiatorIdle ==
    /\ neg_pc = "idle" /\ neg_error = NoError /\ neg_filter = NoFilter
    /\ neg_result = None /\ neg_next = NoFilter

DependencyIdle ==
    /\ dep_pc = "idle" /\ dep_edges = {} /\ dep_stages = <<>> /\ dep_error = "none"

FetchIdle ==
    /\ filter_arg = NoFilter
    /\ fl_pc = "idle" /\ fl_filter = NoFilter
    /\ fl_requests = <<>> /\ fl_responses = <<>> /\ fl_result = NoReply

\* fetch_logs_stream(provider, initial_filter, live_indexing) has spawned the
\* task; the snapshot is the chain head at that moment.
Init ==
    /\ provider \in {"honest", "limits", "faulty"}
    /\ logsAt \in SUBSET Blocks
    /\ live_indexing \in BOOLEAN
    /\ \E f \in 1..MaxStart, t \in 1..MaxStart :
         /\ initial_filter = MkFilter(f, t, "contract")
         /\ head = t
    /\ snapshot_to_block = initial_filter.to_block
    /\ current_filter = initial_filter
    /\ rx_closed = FALSE
    /\ pc = "loop"
    /\ tx = <<>>
    /\ nreq = 0 /\ last_request = NoFilter /\ requested = {} /\ last_reply = NoReply
    /\ FetchIdle /\ NegotiatorIdle /\ DependencyIdle

Next ==
    \/ Dispatch
    \/ RecvEmptyLive
    \/ RecvBlockNumber
    \/ RecvBlockNumberErr
    \/ RecvEmptyStop
    \/ RecvBatch
    \/ RecvBatchSendFailed
    \/ RecvErrNarrow
    \/ RecvErrLive
    \/ RecvErrFatal
    \/ AdvanceHead
    \/ ConsumerClose

Spec == Init /\ [][Next]_vars

\* ------------------------------------------------------------- fetch_logs
\* What a provider may answer to a get_logs of fetch_logs: any short list of
\* logs in any order, a range-limit error naming any two blocks, or an error
\* without a range (a JSON-RPC one or not).
FetchReplies ==
    LET B == 1..MaxFetchBlock
    IN  {OkItem(<<>>)} \cup { OkItem(<<a>>) : a \in B }
          \cup { OkItem(<<a, b>>) : a \in B, b \in B }
          \cup { ErrItem(RpcError(RangeMessage(a, b))) : a \in B, b \in B }
          \cup {ErrItem(TransportError), ErrItem(RpcError(RateLimitMessage)),
                ErrItem(UnstructuredRangeError)}

\* Lines 50-55: inner_fetch_logs is entered and calls get_logs(&filter).
InnerFetchLogs ==
    /\ fl_pc = "call"
    /\ Len(fl_requests) < MaxFetchRequests
    /\ fl_requests' = Append(fl_requests, fl_filter)
    /\ fl_pc' = "get_logs"
    /\ UNCHANGED << filter_arg, fl_filter, fl_responses, fl_result >>
    /\ UNCHANGED << stream_vars, neg_vars, dep_vars >>

\* Lines 57-60: Ok(logs) is returned as it is.
FetchRecvOk ==
    /\ fl_pc = "get_logs"
    /\ \E reply \in FetchReplies :
         /\ reply.ok
         /\ fl_responses' = Append(fl_responses, reply)
         /\ fl_result' = OkItem(reply.logs)
    /\ fl_pc' = "done"
    /\ UNCHANGED << filter_arg, fl_filter, fl_requests >>
    /\ UNCHANGED << stream_vars, neg_vars, dep_vars >>

\* Lines 61-72: Err with a negotiated range: inner_fetch_logs is called again
\* with the filter narrowed, and its result is the result.
FetchRecvErrRetry ==
    /\ fl_pc = "get_logs"
    /\ \E reply \in FetchReplies :
         /\ ~reply.ok /\ Negotiate(reply.err).some
         /\ fl_responses' = Append(fl_responses, reply)
         /\ fl_filter' = NarrowFilter(fl_filter, Negotiate(reply.err))
    /\ fl_pc' = "call"
    /\ UNCHANGED << filter_arg, fl_requests, fl_result >>
    /\ UNCHANGED << stream_vars, neg_vars, dep_vars >>

\* Lines 73-78: Err without a range: the error is returned.
FetchRecvErrSurface ==
    /\ fl_pc = "get_logs"
    /\ \E reply \in FetchReplies :
         /\ ~reply.ok /\ ~Negotiate(reply.err).some
         /\ fl_responses' = Append(fl_responses, reply)
         /\ fl_result' = ErrItem(reply.err)
    /\ fl_pc' = "done"
    /\ UNCHANGED << filter_arg, fl_filter, fl_requests >>
    /\ UNCHANGED << stream_vars, neg_vars, dep_vars >>

StreamIdle ==
    /\ provider = "faulty" /\ logsAt = {} /\ head = 0 /\ rx_closed = FALSE
    /\ live_indexing = FALSE /\ initial_filter = NoFilter /\ snapshot_to_block = 0
    /\ current_filter = NoFilter /\ pc = "idle" /\ tx = <<>>
    /\ nreq = 0 /\ last_request = NoFilter /\ requested = {} /\ last_reply = NoReply

\* fetch_logs(provider, filter) has been called with any filter.
FetchInit ==
    /\ \E f \in 1..MaxFetchBlock, t \in 1..MaxFetchBlock, a \in {"contract", "token"} :
         filter_arg = MkFilter(f, t, a)
    /\ fl_filter = filter_arg
    /\ fl_pc = "call"
    /\ fl_requests = <<>> /\ fl_responses = <<>> /\ fl_result = NoReply
    /\ StreamIdle /\ NegotiatorIdle /\ DependencyIdle

FetchNext ==
    \/ InnerFetchLogs
    \/ FetchRecvOk
    \/ FetchRecvErrRetry
    \/ FetchRecvErrSurface

FetchSpec == FetchInit /\ [][FetchNext]_vars

\* ------------------------------------- the task after the consumer has gone
\* The top of the loop (lines 97-105) once the receiver is dropped: the task is
\* followed without a limit on its requests, and nreq stays where it is.
DispatchAfterClose ==
    /\ pc = "loop"
    /\ rx_closed
    /\ nreq >= MaxRequests
    /\ current_filter' = Clamp(current_filter)
    /\ last_request' = current_filter'
    /\ requested' = requested \cup (current_filter'.from_block..current_filter'.to_block)
    /\ pc' = "get_logs"
    /\ UNCHANGED << provider, logsAt, head, rx_closed, live_indexing, initial_filter,
                    snapshot_to_block, tx, nreq, last_reply >>
    /\ UNCHANGED << fetch_vars, neg_vars, dep_vars >>

\* A step of the spawned task: tokio runs a task that can run, and every
\* provider call returns.
TaskStep ==
    \/ Dispatch
    \/ DispatchAfterClose
    \/ RecvEmptyLive
    \/ RecvBlockNumber
    \/ RecvBlockNumberErr
    \/ RecvEmptyStop
    \/ RecvBatch
    \/ RecvBatchSendFailed
    \/ RecvErrNarrow
    \/ RecvErrLive
    \/ RecvErrFatal

CloseNext ==
    \/ TaskStep
    \/ AdvanceHead
    \/ ConsumerClose

CloseSpec == Init /\ [][CloseNext]_vars /\ WF_vars(TaskStep)

\* ------------------------------------------------- retry_with_block_range
\* The hex digits error messages are written with (1, 5 and f).
HexDigits == {1, 5, 15}

\* The digit strings of the hex literals: one to MaxHexLen digits.
HexLiterals == UNION { [1..n -> HexDigits] : n \in 1..MaxHexLen }

\* What an error message may hold where the pattern wants a hex literal: a
\* literal, "0x" with no digit after it, or digits without "0x".
HexPlace == { Hex(d) : d \in HexLiterals } \cup {Hex(<<>>), Lit("1")}

\* The error messages the negotiator is given: text around five tokens that
\* form the shape or miss it in one place or more, a second shape after the
\* first, and messages too short to hold it.
NegotiatorMessages ==
    LET pre == { <<>>, << Lit("Log response size exceeded. ") >> }
        suf == { <<>>, << Lit(" Try again.") >>,
                 << Lit("this block range should work: ["), Hex(<<5>>), Lit(","),
                    Hex(<<15>>), Lit("]") >> }
        open == { Lit("this block range should work: ["), Lit("this block range works: [") }
        sep == { Lit(", "), Lit(","), Lit(" ") }
        close == { Lit("]"), Lit(")") }
    IN  { p \o << o, x, c, y, e >> \o q :
            p \in pre, o \in open, x \in HexPlace, c \in sep, y \in HexPlace,
            e \in close, q \in suf }
        \cup { <<>>, RateLimitMessage,
               << Lit("this block range should work: ["), Hex(<<1>>), Lit(", ") >> }

\* Lines 141-145 (and 65-69): the negotiator is applied to the error of a
\* failed request, and the filter of the retry is built from what it returns.
NegotiateAndNarrow ==
    /\ neg_pc = "call"
    /\ neg_result' = retry_with_block_range(neg_error)
    /\ neg_next' = IF neg_result'.some THEN NarrowFilter(neg_filter, neg_result')
                   ELSE NoFilter
    /\ neg_pc' = "done"
    /\ UNCHANGED << neg_error, neg_filter >>
    /\ UNCHANGED << stream_vars, fetch_vars, dep_vars >>

\* A request over some range has failed with some JSON-RPC error.
NegotiatorInit ==
    /\ neg_pc = "call"
    /\ neg_error \in { RpcError(m) : m \in NegotiatorMessages }
    /\ neg_filter \in { MkFilter(1, 2, "contract"), MkFilter(3, 3, "token") }
    /\ neg_result = None /\ neg_next = NoFilter
    /\ StreamIdle /\ FetchIdle /\ DependencyIdle

NegotiatorNext == NegotiateAndNarrow

NegotiatorSpec == NegotiatorInit /\ [][NegotiatorNext]_vars

\* ---------------------------------------------------- EventsDependencyTree
\* The event streams of the manifest.
Events == 1..MaxEvents

\* The events that wait for nothing that is still to be placed, with the
\* edges read backwards (an event is held back by what depends on it).
Ready_Reversed(edges, remaining) ==
    { e \in remaining : \A d \in edges : d[1] = e => d[2] \notin remaining }

\* The events of `remaining` all of whose dependencies are placed already.
Ready(edges, remaining) ==
    { e \in remaining : \A d \in edges : d[2] = e => d[1] \notin remaining }

RECURSIVE Layers(_, _)
\* topologicalStages: stage after stage, the events that depend only on events
\* of earlier stages; an empty stage ends the list when events remain and none
\* is ready (a cycle).
Layers(edges, remaining) ==
    IF remaining = {} THEN <<>>
    ELSE IF Ready(edges, remaining) = {} THEN << {} >>
    ELSE << Ready(edges, remaining) >>
           \o Layers(edges, remaining \ Ready(edges, remaining))

\* Construction from acyclic declarations: the stages.
BuildStages ==
    /\ dep_pc = "build"
    /\ LET l == Layers(dep_edges, Events)
       IN  /\ (l = <<>> \/ Last(l) # {})
           /\ dep_stages' = l
    /\ dep_error' = "none"
    /\ dep_pc' = "done"
    /\ UNCHANGED dep_edges
    /\ UNCHANGED << stream_vars, fetch_vars, neg_vars >>

\* Construction from cyclic declarations fails and yields no stages.
BuildFails ==
    /\ dep_pc = "build"
    /\ LET l == Layers(dep_edges, Events)
       IN  l # <<>> /\ Last(l) = {}
    /\ dep_stages' = <<>>
    /\ dep_error' = "DependencyCycleError"
    /\ dep_pc' = "done"
    /\ UNCHANGED dep_edges
    /\ UNCHANGED << stream_vars, fetch_vars, neg_vars >>

\* The manifest declares any set of dependency edges between its events.
DependencyInit ==
    /\ dep_pc = "build"
    /\ dep_edges \in SUBSET (Events \X Events)
    /\ dep_stages = <<>> /\ dep_error = "none"
    /\ StreamIdle /\ FetchIdle /\ NegotiatorIdle

DependencyNext ==
    \/ BuildStages
    \/ BuildFails

DependencySpec == DependencyInit /\ [][DependencyNext]_vars

\* ================================================================ claims
\* The blocks whose logs item i of the channel carries.
BlocksOfItem(i) == { tx[i].logs[k] : k \in DOMAIN tx[i].logs }

\* The batches of the channel that carry logs of block b.
EmittedIn(b) == { i \in DOMAIN tx : tx[i].ok /\ b \in BlocksOfItem(i) }

\* The Err items of the channel.
ErrItems == { i \in DOMAIN tx : ~tx[i].ok }

\* A backfill over [F, S], F <= S, that is not live.
Backfill ==
    /\ pc # "idle"
    /\ ~live_indexing
    /\ initial_filter.from_block <= initial_filter.to_block

BackfillBlocks == (initial_filter.from_block..initial_filter.to_block) \cap logsAt

\* C1: backfill exactly-once.  Not live, initial filter [F, S], a provider that
\* answers every request with all logs of the range: no block of [F, S] has its
\* logs in two emitted batches, and when the task has left its loop after
\* "All logs fetched!" every block of [F, S] that has logs is in exactly one.
C1_BackfillExactlyOnce ==
    (Backfill /\ provider = "honest") =>
        /\ \A b \in BackfillBlocks : Cardinality(EmittedIn(b)) <= 1
        /\ pc = "all_fetched" => \A b \in BackfillBlocks : Cardinality(EmittedIn(b)) = 1

\* C2: backfill termination.  Not live, initial filter [F, S], a provider that
\* always succeeds: once a batch ending in block S has been emitted (the
\* advanced fromBlock exceeds snapshotHead) no further request is issued, and
\* the task issues at most one request per block of [F, S] and a last one.
C2_BackfillStops ==
    (Backfill /\ provider = "honest") =>
        /\ (tx # <<>> /\ Last(Last(tx).logs) >= snapshot_to_block) => pc # "get_logs"
        /\ nreq <= (initial_filter.to_block - initial_filter.from_block) + 2

\* C3: per-stream ordering.  Live or not, whatever the provider answers and
\* wherever the head is: each emitted batch starts at a block >= the block the
\* batch emitted before it ends at.
C3_BatchesNonDecreasing ==
    \A i \in 1..(Len(tx) - 1) :
        (tx[i].ok /\ tx[i + 1].ok) => tx[i + 1].logs[1] >= Last(tx[i].logs)

\* C4: at-least-once under range limits.  Not live, initial filter [F, S], a
\* provider that may reject a request naming a sub-range of it and otherwise
\* returns all logs of the range: when the task has stopped (and the consumer
\* is still there) every block of [F, S] that has logs is in some batch.
C4_RangeLimitsLoseNothing ==
    (Backfill /\ provider = "limits" /\ Stopped /\ ~rx_closed) =>
        \A b \in BackfillBlocks : EmittedIn(b) # {}

\* C5: live-tail coverage.  Live, initial filter [F, S], a provider that always
\* succeeds, a head that advances by any number of blocks between polls: no
\* block is passed over, i.e. every block from F up to the highest block
\* requested so far has been covered by some request.
C5_NoBlockPassedOver ==
    (pc # "idle" /\ live_indexing /\ provider = "honest"
       /\ initial_filter.from_block <= initial_filter.to_block) =>
        \A b \in Blocks :
            (initial_filter.from_block <= b /\ \E r \in requested : b <= r) => b \in requested

\* C6: filter well-formedness.  Every get_logs request issued by fetch_logs and
\* by fetch_logs_stream has fromBlock <= toBlock.
C6_RequestsWellFormed ==
    /\ nreq > 0 => last_request.from_block <= last_request.to_block
    /\ \A i \in DOMAIN fl_requests : fl_requests[i].from_block <= fl_requests[i].to_block

\* C7: fetcher narrowed retry.  fetch_logs called with [f, t], the provider
\* rejects once suggesting [a, b] and then succeeds: exactly two requests, the
\* argument and then the argument with its range replaced by [a, b] (address
\* and topics unchanged), and the result is the second answer's logs as given.
C7_NarrowedRetry ==
    \A a \in 1..MaxFetchBlock, b \in 1..MaxFetchBlock :
        ( /\ fl_pc = "done"
          /\ Len(fl_responses) = 2
          /\ fl_responses[1] = ErrItem(RpcError(RangeMessage(a, b)))
          /\ fl_responses[2].ok )
        => /\ fl_requests = << filter_arg,
                               [from_block |-> a, to_block |-> b,
                                address |-> filter_arg.address,
                                topics |-> filter_arg.topics] >>
           /\ fl_result = OkItem(fl_responses[2].logs)

\* C7 happens: a call rejected once, narrowed to another range, answered with
\* two logs in descending order.
C7_Witness ==
    /\ fl_pc = "done"
    /\ Len(fl_responses) = 2 /\ ~fl_responses[1].ok /\ fl_responses[2].ok
    /\ Len(fl_requests) = 2 /\ fl_requests[2] # fl_requests[1]
    /\ Len(fl_result.logs) = 2 /\ fl_result.logs[1] > fl_result.logs[2]

\* C8: bounded narrowing retries.  Whatever the provider answers, the requests
\* of one fetch_logs call stay below a maximum: a retry limit of the code ends
\* the call before it has made as many requests as the model follows it for.
C8_RetriesBounded ==
    Len(fl_requests) < MaxFetchRequests

\* C9: live-mode failure recovery.  Live: no failure of get_logs or of the
\* chain-head query ends the task or puts an Err on the channel.
C9_LiveSurvivesFailures ==
    (pc # "idle" /\ live_indexing) =>
        /\ pc \notin {"panicked", "error_exit"}
        /\ ErrItems = {}

\* C10, the state part: not live, the channel holds at most one Err, it is the
\* last item, it carries the error of the failed request, and the task is out
\* of its loop.
C10_ErrIsLast ==
    (pc # "idle" /\ ~live_indexing) =>
        /\ Cardinality(ErrItems) <= 1
        /\ \A i \in ErrItems :
             i = Len(tx) /\ pc = "error_exit" /\ tx[i] = ErrItem(last_reply.err)

\* C10, the step part: not live, a get_logs answer that is an error without a
\* range sends that Err once (onto the channel if the consumer is there) and
\* moves to the exit; from the exit no request is issued and nothing is sent.
C10_FatalStep ==
    /\ ( /\ pc = "get_logs" /\ pc' # "get_logs"
         /\ ~live_indexing
         /\ ~last_reply'.ok /\ ~Negotiate(last_reply'.err).some )
       => /\ pc' = "error_exit"
          /\ nreq' = nreq
          /\ tx' = IF rx_closed THEN tx ELSE Append(tx, ErrItem(last_reply'.err))
    /\ pc = "error_exit" => (pc' = "error_exit" /\ nreq' = nreq /\ tx' = tx)

\* C10: non-live fatal error.  Not live, a get_logs failure with no narrower
\* range: exactly one Err carrying that error is sent, it is the last item of
\* the channel, and no request and no batch follows it.
C10_NonLiveFatal == []C10_ErrIsLast /\ [][C10_FatalStep]_vars

\* C10 happens: a batch was emitted, then a request failed without a range and
\* its Err closed the channel.
C10_Witness ==
    /\ pc = "error_exit" /\ ~live_indexing /\ ~rx_closed
    /\ Len(tx) = 2 /\ tx[1].ok /\ ~tx[2].ok


\* C11: consumer close stops the stream.  Live or not, once the consumer has
\* dropped the channel the task eventually leaves its loop, whatever the
\* provider answers afterwards.
C11_CloseStopsTask == rx_closed ~> Stopped


RECURSIVE Pow16(_)
Pow16(k) == IF k = 0 THEN 1 ELSE 16 * Pow16(k - 1)

\* The number a hex literal denotes: each digit times its power of sixteen.
Denoted(x) ==
    LET S[j \in 0..Len(x)] == IF j = 0 THEN 0 ELSE S[j - 1] + x[j] * Pow16(Len(x) - j)
    IN  S[Len(x)]

\* The message holds 'this block range should work: [0x<hex>, 0x<hex>]' at token i.
ShapeAt(m, i) ==
    /\ i + 4 <= Len(m)
    /\ m[i] = Lit("this block range should work: [")
    /\ m[i + 1].t = "hex" /\ m[i + 1].hex # <<>>
    /\ m[i + 2] \in {Lit(","), Lit(", ")}
    /\ m[i + 3].t = "hex" /\ m[i + 3].hex # <<>>
    /\ m[i + 4] = Lit("]")

\* C12: negotiator result.  retry_with_block_range returns a range exactly when
\* the message holds the shape; from and to are the two hex values in that
\* order; the retry's filter takes them as given, whatever range was requested
\* (address and topics kept); without the shape there is no range and no retry.
C12_NegotiatorResult ==
    neg_pc = "done" =>
        LET m == neg_error.message
            at == { i \in 1..Len(m) : ShapeAt(m, i) }
        IN  IF at = {}
            THEN neg_result.some = FALSE /\ neg_next = NoFilter
            ELSE \E i \in at :
                   /\ \A j \in at : i <= j
                   /\ neg_result.some
                   /\ neg_result.from = Denoted(m[i + 1].hex)
                   /\ neg_result.to = Denoted(m[i + 3].hex)
                   /\ neg_next = [from_block |-> Denoted(m[i + 1].hex),
                                  to_block |-> Denoted(m[i + 3].hex),
                                  address |-> neg_filter.address,
                                  topics |-> neg_filter.topics]

\* C12 happens: the message "this block range should work: [0x1, 0x5]" gives
\* from = 1 and to = 5, and the retry asks [1, 5] though [3, 3] was requested.
C12_Witness ==
    /\ neg_pc = "done"
    /\ neg_error.message = << Lit("this block range should work: ["), Hex(<<1>>),
                              Lit(", "), Hex(<<5>>), Lit("]") >>
    /\ neg_result.some /\ neg_result.from = 1 /\ neg_result.to = 5
    /\ neg_filter.from_block = 3 /\ neg_filter.to_block = 3
    /\ neg_next.from_block = 1 /\ neg_next.to_block = 5


\* The error cannot be narrowed: it is no structured provider rejection, or its
\* message does not hold the shape.
NotNarrowable(err) ==
    \/ ~err.rpc
    \/ \A i \in 1..Len(err.message) : ~ShapeAt(err.message, i)

\* C13: fetcher surfaces non-narrowable errors.  A request of fetch_logs that
\* fails with an error that is not structured or holds no range is the last
\* request of the call: the call returns that same error, and every request
\* made has been answered (a first-request failure: one request in total).
C13_FetcherSurfacesError ==
    \A i \in DOMAIN fl_responses :
        (~fl_responses[i].ok /\ NotNarrowable(fl_responses[i].err)) =>
            /\ i = Len(fl_responses)
            /\ Len(fl_requests) = i
            /\ fl_pc = "done"
            /\ fl_result = ErrItem(fl_responses[i].err)

\* C13 happens: the first request fails with an error that is not a JSON-RPC
\* error response, though its text names a range; one request, that error back.
C13_Witness ==
    /\ fl_pc = "done"
    /\ Len(fl_requests) = 1
    /\ fl_responses = << ErrItem(UnstructuredRangeError) >>
    /\ fl_result = ErrItem(UnstructuredRangeError)


RECURSIVE Reaches(_, _, _, _)
\* a reaches b along one edge or more, at most `steps` of them.
Reaches(edges, a, b, steps) ==
    \/ <<a, b>> \in edges
    \/ /\ steps > 1
       /\ \E c \in Events : <<a, c>> \in edges /\ Reaches(edges, c, b, steps - 1)

\* The declarations hold a cycle: some event reaches itself.
Cyclic(edges) == \E e \in Events : Reaches(edges, e, e, MaxEvents)

\* The stages that hold event e.
StagesOf(e) == { k \in DOMAIN dep_stages : e \in dep_stages[k] }

\* C14: dependency stages.  Built from acyclic edges, the stages place every
\* event once and strictly later than every event it depends on (so never two
\* dependent events together), and the chain A -> B -> C puts A, B and C in
\* stages 1, 2 and 3; with a cycle construction fails with the dependency-cycle
\* error and there are no stages.
C14_DependencyStages ==
    dep_pc = "done" =>
        IF Cyclic(dep_edges)
        THEN dep_error = "DependencyCycleError" /\ dep_stages = <<>>
        ELSE /\ dep_error = "none"
             /\ \A e \in Events : Cardinality(StagesOf(e)) = 1
             /\ \A d \in dep_edges :
                  \A i \in StagesOf(d[1]), j \in StagesOf(d[2]) : i < j
             /\ dep_edges = { <<1, 2>>, <<2, 3>> } =>
                  /\ Len(dep_stages) = 3
                  /\ dep_stages[1] \cap {1, 2, 3} = {1}
                  /\ dep_stages[2] = {2}
                  /\ dep_stages[3] = {3}

\* C14 happens: the chain A -> B -> C has been built into three stages.
C14_Witness ==
    /\ dep_pc = "done"
    /\ dep_edges = { <<1, 2>>, <<2, 3>> }
    /\ Len(dep_stages) = 3 /\ dep_error = "none"

\* The task receives a successful, non-empty answer to get_logs in this step.
C15_GotBatch ==
    /\ pc = "get_logs" /\ pc' # "get_logs"
    /\ last_reply'.ok /\ Len(last_reply'.logs) > 0

\* The batch is sent once and the filter becomes [lastLogBlock + 1,
\* snapshotHead], address and topics as in the initial filter.
C15_Advanced ==
    /\ tx' = Append(tx, OkItem(last_reply'.logs))
    /\ current_filter' = [initial_filter EXCEPT
                             !.from_block = Last(last_reply'.logs) + 1,
                             !.to_block = initial_filter.to_block]

\* C15 as stated: after every successful non-empty get_logs response the batch
\* is sent once and the filter becomes [lastLogBlock + 1, snapshotHead].
C15_AdvanceAlways == [][C15_GotBatch => C15_Advanced]_vars

\* C15 amended: the snapshot is the initial filter's toBlock throughout; after a
\* successful non-empty response the batch is sent once and the filter becomes
\* [lastLogBlock + 1, snapshotHead] whenever the consumer still holds the
\* channel, whatever range the request used; with the consumer gone nothing is
\* sent and the filter stays as it was.
C15_AdvanceUnlessClosed ==
    /\ [](pc # "idle" => snapshot_to_block = initial_filter.to_block)
    /\ [][initial_filter' = initial_filter /\ snapshot_to_block' = snapshot_to_block]_vars
    /\ [][C15_GotBatch /\ ~rx_closed => C15_Advanced]_vars
    /\ [][C15_GotBatch /\ rx_closed => tx' = tx /\ current_filter' = current_filter]_vars

\* C15 happens: a batch answering a request whose toBlock was not the snapshot
\* (a narrowed range or a live [head, head]) has just been sent and the filter
\* advanced.
C15_Witness ==
    /\ pc = "loop" /\ tx # <<>>
    /\ last_reply.ok /\ Len(last_reply.logs) > 0
    /\ Last(tx) = OkItem(last_reply.logs)
    /\ last_request.to_block # snapshot_to_block
    /\ current_filter.from_block = Last(last_reply.logs) + 1
    /\ current_filter.to_block = snapshot_to_block

\* The answer e is a JSON-RPC error whose text suggests the range [a, b].
SuggestsRange(e, a, b) == e = ErrItem(RpcError(RangeMessage(a, b)))

\* The task receives, in this step, a failure that suggests a range.
C16_GotRangeError ==
    /\ pc = "get_logs" /\ pc' # "get_logs"
    /\ \E a \in Blocks, b \in Blocks : SuggestsRange(last_reply', a, b)

\* The request in flight follows a failure that suggested [a, b]: it asks for
\* exactly [a, b], or [b, b] when a > b, of the initial address and topics.
C16_NextRequestIsSuggested ==
    \A a \in Blocks, b \in Blocks :
        (pc = "get_logs" /\ SuggestsRange(last_reply, a, b)) =>
            last_request = [initial_filter EXCEPT
                               !.from_block = IF a > b THEN b ELSE a,
                               !.to_block = b]

\* C16: range-limit errors are invisible downstream.  Live or not, a failure
\* with a range the Negotiator extracts puts nothing on the channel and leaves
\* the task running, and the next request is for the suggested range, clamped,
\* with address and topics unchanged.
C16_RangeLimitInvisible ==
    /\ [][C16_GotRangeError => tx' = tx /\ pc' = "loop" /\ ~Stopped']_vars
    /\ []C16_NextRequestIsSuggested

\* C16 happens: not live, a failure suggested a range with from > to, nothing
\* was emitted for it and the clamped request is in flight.
C16_Witness ==
    /\ ~live_indexing /\ pc = "get_logs" /\ ErrItems = {}
    /\ \E a \in Blocks, b \in Blocks :
         /\ a > b /\ SuggestsRange(last_reply, a, b)
         /\ last_request.from_block = b /\ last_request.to_block = b

\* The send of a fetched batch fails in this step: a successful non-empty
\* answer arrives when the consumer has closed the channel.
C17_SendFails ==
    /\ pc = "get_logs" /\ pc' # "get_logs"
    /\ last_reply'.ok /\ Len(last_reply'.logs) > 0
    /\ rx_closed

\* C17: send failure is terminal.  Live or not, a failed send stops the task
\* there and then, the filter not advanced, and afterwards no get_logs and no
\* chain-head request is issued and nothing changes.
C17_SendFailureTerminal ==
    /\ [][C17_SendFails => /\ pc' = "send_failed"
                           /\ current_filter' = current_filter
                           /\ tx' = tx /\ nreq' = nreq]_vars
    /\ [][pc = "send_failed" => /\ pc' = "send_failed"
                                /\ nreq' = nreq /\ last_request' = last_request
                                /\ requested' = requested
                                /\ current_filter' = current_filter
                                /\ tx' = tx]_vars

\* C17 happens: a live task has stopped on a failed send after earlier batches
\* went through.
C17_Witness ==
    /\ pc = "send_failed" /\ live_indexing /\ rx_closed
    /\ tx # <<>> /\ nreq >= 2

\* The last answer was a failure from which the narrowing gets no range.
C18_FailedWithoutRange ==
    /\ ~last_reply.ok
    /\ \A a \in Blocks, b \in Blocks : ~SuggestsRange(last_reply, a, b)

\* C18: live retry keeps the filter.  While live, after a get_logs failure
\* without a range the task goes on, the next request has the failed request's
\* fromBlock, toBlock, address and topics, and nothing is emitted in between.
C18_LiveRetryKeepsFilter ==
    /\ [][(live_indexing /\ pc = "get_logs" /\ pc' # "get_logs"
           /\ ~last_reply'.ok /\ C18_FailedWithoutRange')
          => pc' = "loop" /\ tx' = tx /\ current_filter' = last_request]_vars
    /\ [][(live_indexing /\ pc = "loop" /\ C18_FailedWithoutRange)
          => tx' = tx /\ (pc' = "get_logs" => last_request' = last_request)]_vars

\* C18 happens: a live task has repeated, after such a failure, a request other
\* than its first one.
C18_Witness ==
    /\ live_indexing /\ pc = "get_logs" /\ C18_FailedWithoutRange
    /\ nreq >= 3 /\ tx # <<>>
    /\ <<last_request.from_block, last_request.to_block>>
         # <<initial_filter.from_block, initial_filter.to_block>>

\* The task receives, in this step, a successful empty answer to get_logs.
GotEmptyAnswer ==
    /\ pc = "get_logs" /\ pc' # "get_logs"
    /\ last_reply'.ok /\ Len(last_reply'.logs) = 0

\* C19: empty fetch while live.  A successful empty answer puts nothing on the
\* channel and does not stop the stream; the head is queried, the filter
\* becomes [head, head] and that is the next request.
C19_EmptyLivePolls ==
    /\ [][(live_indexing /\ GotEmptyAnswer)
          => tx' = tx /\ pc' = "get_block_number"]_vars
    /\ [][(live_indexing /\ pc = "get_block_number" /\ pc' # "get_block_number")
          => /\ tx' = tx /\ ~Stopped'
             /\ current_filter' = [initial_filter EXCEPT !.from_block = head,
                                                         !.to_block = head]]_vars
    /\ [][(live_indexing /\ pc = "loop" /\ pc' = "get_logs"
           /\ nreq > 0 /\ last_reply.ok /\ Len(last_reply.logs) = 0)
          => last_request' = current_filter /\ tx' = tx]_vars
    /\ [](\A i \in DOMAIN tx : tx[i].ok => Len(tx[i].logs) > 0)

\* C20: empty fetch while not live.  The first successful empty answer stops
\* the stream with no Err item on the channel and no further request, and the
\* answer was for a range whose toBlock is the snapshot head.
C20_EmptyStopsAtSnapshot ==
    /\ [][(~live_indexing /\ GotEmptyAnswer) => pc' = "all_fetched" /\ tx' = tx]_vars
    /\ [][pc = "all_fetched" => /\ pc' = "all_fetched" /\ tx' = tx
                                /\ nreq' = nreq /\ last_request' = last_request]_vars
    /\ []((~live_indexing /\ pc = "all_fetched")
            => ErrItems = {} /\ last_request.to_block = snapshot_to_block)

====
